---- MODULE Spec2Model ----
(***************************************************************************)
(* CodeSculpt.js: the tracer backend (Babel tracer plugin, sandboxed run,  *)
(* run selection, frame filtering) and the call stack the visualizer       *)
(* builds from the frames it is handed.                                    *)
(*                                                                         *)
(* JavaScript values are tagged pairs <<tag, payload>>; a JavaScript       *)
(* object (locals, args, currentState) is the sequence of its <<key,       *)
(* value>> properties in insertion order, which is the order               *)
(* JSON.stringify and the spread operator walk.  An absent object property *)
(* of an event (no args, no locals) is the empty object: spreading either  *)
(* leaves the target unchanged.                                            *)
(***************************************************************************)
EXTENDS Integers, Sequences, FiniteSets, TLC

VARIABLES
    pc,               \* position of the request handler
    code,             \* req.body.code: the name of the submitted program
    vm,               \* the sandbox: the machine running the wrapped code
    rawLogs,          \* sandbox.module.exports
    executionRun,     \* selectExecutionRun(rawLogs)
    idx,              \* filterLogs: position of the for-of loop in executionRun
    currentState,     \* filterLogs: accumulated args and locals
    lastPushedState,  \* filterLogs: null or the last serialized state
    pendingContext,   \* filterLogs: null or the context of the last test
    frames,           \* filterLogs: the frames pushed so far
    response,         \* what the handler answered
    legacy,           \* the first filterLogs: its loop position and locals
    home,             \* Home: logs, code, currentStep
    visualizer,       \* Visualizer: isPlaying, the interval of intervalRef
    fetches           \* Home.runCode: the requests awaiting their response

vars == <<pc, code, vm, rawLogs, executionRun, idx, currentState,
          lastPushedState, pendingContext, frames, response,
          legacy, home, visualizer, fetches>>

\* What the handler of the server leaves alone: the first filterLogs and
\* the page in the browser.
elsewhere == <<legacy, home, visualizer, fetches>>

\* Longest raw event list the reducer specification draws.
MaxLen == 4

-----------------------------------------------------------------------------
(* JavaScript values and objects *)

Undefined == <<"undef", 0>>
Null == <<"null", 0>>
Num(n) == <<"num", n>>
Str(s) == <<"str", s>>
Bool(b) == <<"bool", IF b THEN 1 ELSE 0>>
Ref(a) == <<"ref", a>>
Arr(s) == <<"arr", s>>

EmptyObject == <<>>

HasKey(obj, k) == \E i \in 1..Len(obj) : obj[i][1] = k

Get(obj, k) ==
    IF HasKey(obj, k)
    THEN obj[CHOOSE i \in 1..Len(obj) : obj[i][1] = k][2]
    ELSE Undefined

\* obj[k] = v: an existing key keeps its place, a new one goes last.
SetKey(obj, k, v) ==
    IF HasKey(obj, k)
    THEN [i \in 1..Len(obj) |-> IF obj[i][1] = k THEN <<k, v>> ELSE obj[i]]
    ELSE Append(obj, <<k, v>>)

\* { ...target, ...src }
RECURSIVE Spread(_, _)
Spread(target, src) ==
    IF src = <<>> THEN target
    ELSE Spread(SetKey(target, Head(src)[1], Head(src)[2]), Tail(src))

\* JSON.stringify of an array element: undefined becomes null.
JSONElement(v) == IF v = Undefined THEN Null ELSE v

\* JSON.stringify of a value: an array is written out with the elements it
\* holds now; everything else the model has is written as it is.
JSONValue(v, heap) ==
    IF v[1] = "ref"
    THEN Arr([i \in 1..Len(heap[v[2]]) |-> JSONElement(heap[v[2]][i])])
    ELSE IF v[1] = "arr"
    THEN Arr([i \in 1..Len(v[2]) |-> JSONElement(v[2][i])])
    ELSE v

IsDefined(prop) == prop[2] # Undefined

\* JSON.stringify of an object: the text, as the list of the properties it
\* writes.  A property whose value is undefined is left out.
JSONstringify(obj, heap) ==
    LET kept == SelectSeq(obj, IsDefined)
    IN  [i \in 1..Len(kept) |-> <<kept[i][1], JSONValue(kept[i][2], heap)>>]

\* JSON.parse of such a text: the object with those properties.
JSONparse(text) == text

\* What follows a value, the value taken as a value out of a set
\* so that it is computed once, before what follows.
Then(m, F(_)) == CHOOSE r \in {F(n) : n \in {m}} : TRUE

-----------------------------------------------------------------------------
(* Events (what __log receives) and frames (what filterLogs pushes) *)

Event(action, line, args, locals, value, output, expression, result, function) ==
    [action |-> action, line |-> line, args |-> args, locals |-> locals,
     value |-> value, output |-> output, expression |-> expression,
     result |-> result, function |-> function]

NoContext == <<>>

\* A frame of the response; a property the code does not set is undefined.
Frame(action, line, locals, context, returnValue, output) ==
    [action |-> action, line |-> line, locals |-> locals, context |-> context,
     returnValue |-> returnValue, output |-> output, error |-> Undefined]

\* An object without action: no action, no line.
NoAction == ""
NoLine == -1

-----------------------------------------------------------------------------
(* The first filterLogs of the server, and the page before any action *)

\* let lastLineEntry = null;
NoEntry == <<>>

\* const filtered = []; let lastLineEntry = null;  and the for-of loop at
\* the first entry of rawLogs.
LegacyStart == [entry |-> 1, filtered |-> <<>>, lastLineEntry |-> NoEntry]

\* No interval: intervalRef.current after clearInterval.
NoInterval == -1

\* useState([]), useState(""), useState(0)
HomeStart == [logs |-> <<>>, code |-> "", currentStep |-> 0]

\* useState(false), useRef(null); `effect` tells that the playback effect
\* is still to run for what was rendered last.
VisualizerStart == [isPlaying |-> FALSE, interval |-> NoInterval, effect |-> FALSE]

-----------------------------------------------------------------------------
(* selectExecutionRun *)

Max(S) == CHOOSE x \in S : \A y \in S : y <= x
Min(S) == CHOOSE x \in S : \A y \in S : x <= y

\* The slice taken from the first call instead of the last, and nothing at
\* all for a list without calls.
selectFirstRun(logs) ==
    IF Len(logs) = 0 THEN <<>>
    ELSE LET callIndices == {i \in 1..Len(logs) : logs[i].action = "call"}
         IN  IF callIndices = {} THEN <<>>
             ELSE SubSeq(logs, CHOOSE i \in callIndices :
                                   \A j \in callIndices : i <= j, Len(logs))

selectExecutionRun(logs) ==
    IF Len(logs) = 0 THEN <<>>
    ELSE LET callIndices == {i \in 1..Len(logs) : logs[i].action = "call"}
         IN  IF callIndices = {} THEN logs
             ELSE LET lastCallIndex == Max(callIndices)
                  IN  SubSeq(logs, lastCallIndex, Len(logs))

-----------------------------------------------------------------------------
(* filterLogs: one iteration of its loop *)

\* Accumulate state from args and locals.
Accumulate(state, log) ==
    LET withArgs == IF log.action = "call" THEN Spread(state, log.args)
                    ELSE state
    IN  Spread(withArgs, log.locals)

\* Only calls and returns count.
isCallOrReturn(log) == log.action \in {"call", "return"}

isSignificantAction(log) == log.action \in {"call", "return", "stdout"}

NullState == <<"null">>
Serialized(text) == <<"string", text>>

\* The comparison that finds a change every time.
stateAlwaysChanged(state, last, heap) == TRUE

stateHasChanged(state, last, heap) ==
    Serialized(JSONstringify(state, heap)) # last

TestContext(log) == <<"Tested", log.expression, log.result>>

\* The frame that holds the current state itself, not a copy of it.
newFrameSharingState(log, state, pending, heap) ==
    Frame(IF pending # NoContext THEN log.action \o " (after test)"
                                 ELSE log.action,
          log.line, state, pending,
          IF log.action = "return" THEN log.value ELSE Undefined,
          IF log.action = "stdout" THEN log.output ELSE Undefined)

\* The frame that keeps the action of its event also after a test.
newFrameSameAction(log, state, pending, heap) ==
    Frame(log.action, log.line, JSONparse(JSONstringify(state, heap)),
          pending,
          IF log.action = "return" THEN log.value ELSE Undefined,
          IF log.action = "stdout" THEN log.output ELSE Undefined)

newFrame(log, state, pending, heap) ==
    Frame(IF pending # NoContext THEN log.action \o " (after test)"
                                 ELSE log.action,
          log.line,
          JSONparse(JSONstringify(state, heap)),
          pending,
          IF log.action = "return" THEN log.value ELSE Undefined,
          IF log.action = "stdout" THEN log.output ELSE Undefined)

\* filterLogs as a function of the run: the state of its loop at the start,
\* one iteration, and the frames when the run is through.
FilterStart ==
    [frames |-> <<>>, currentState |-> EmptyObject,
     lastPushedState |-> NullState, pendingContext |-> NoContext]

FilterIteration(st, log, heap) ==
    LET state == Accumulate(st.currentState, log)
    IN  IF log.action = "test"
        THEN [st EXCEPT !.currentState = state,
                        !.pendingContext = TestContext(log)]
        ELSE IF \/ isSignificantAction(log)
                \/ stateHasChanged(state, st.lastPushedState, heap)
        THEN [frames |-> Append(st.frames,
                            newFrame(log, state, st.pendingContext, heap)),
              currentState |-> state,
              lastPushedState |-> Serialized(JSONstringify(state, heap)),
              pendingContext |-> NoContext]
        ELSE [st EXCEPT !.currentState = state]

RECURSIVE FilterThrough(_, _, _)
FilterThrough(st, run, heap) ==
    IF Len(run) = 0 THEN st
    ELSE Then(FilterIteration(st, Head(run), heap),
              LAMBDA next : FilterThrough(next, Tail(run), heap))

filterLogs(run, heap) == FilterThrough(FilterStart, run, heap).frames

\* selectExecutionRun(rawLogs), then the entry of filterLogs.
HandlerSelect ==
    /\ pc = "select"
    /\ executionRun' = selectExecutionRun(rawLogs)
    /\ frames' = <<>>
    /\ currentState' = EmptyObject
    /\ lastPushedState' = NullState
    /\ pendingContext' = NoContext
    /\ idx' = 1
    /\ pc' = "filter"
    /\ UNCHANGED <<code, vm, rawLogs, response>>
    /\ UNCHANGED elsewhere

FilterLogsIter ==
    /\ pc = "filter"
    /\ idx <= Len(executionRun)
    /\ LET log == executionRun[idx]
           state == Accumulate(currentState, log)
       IN  /\ currentState' = state
           /\ IF log.action = "test"
              THEN /\ pendingContext' = TestContext(log)
                   /\ UNCHANGED <<frames, lastPushedState>>
              ELSE IF \/ isSignificantAction(log)
                      \/ stateHasChanged(state, lastPushedState, vm.heap)
              THEN /\ frames' = Append(frames,
                           newFrame(log, state, pendingContext, vm.heap))
                   /\ pendingContext' = NoContext
                   /\ lastPushedState' =
                          Serialized(JSONstringify(state, vm.heap))
              ELSE UNCHANGED <<frames, lastPushedState, pendingContext>>
    /\ idx' = idx + 1
    /\ UNCHANGED <<pc, code, vm, rawLogs, executionRun, response>>
    /\ UNCHANGED elsewhere

\* return frames; res.json({ logs: finalFrames })
HandlerRespond ==
    /\ pc = "filter"
    /\ idx > Len(executionRun)
    /\ response' = [ok |-> TRUE, logs |-> frames]
    /\ pc' = "done"
    /\ UNCHANGED <<code, vm, rawLogs, executionRun, idx, currentState,
                   lastPushedState, pendingContext, frames>>
    /\ UNCHANGED elsewhere

-----------------------------------------------------------------------------
(* Visualizer: the call stack built from logs[0..step] *)

CallFrame(entry) ==
    [func |-> Undefined, locals |-> EmptyObject, args |-> EmptyObject,
     returnValue |-> Null]

StackEntry(s, entry) ==
    LET s1 == IF entry.action = "call" THEN Append(s, CallFrame(entry)) ELSE s
    IN  IF entry.action = "call" THEN Append(s1, CallFrame(entry))
        ELSE IF entry.action \in {"declare", "assign", "line"} /\ Len(s1) > 0
        THEN [s1 EXCEPT ![Len(s1)].locals = Spread(@, entry.locals)]
        ELSE IF entry.action = "return" /\ Len(s1) > 0
        THEN SubSeq(s1, 1, Len(s1) - 1)
        ELSE s1

\* step is 0-based; an index past the end of logs is skipped.
\* The outputs of the entries of a list, in order.
Outputs(entries) == [i \in 1..Len(entries) |-> entries[i].output]

IsPlainStdout(entry) == entry.action = "stdout"
IsStdout(entry) == entry.action \in {"stdout", "stdout (after test)"}

\* The collection that passes over a stdout frame renamed after a test.
stdoutOfPlainFrames(logs, step) ==
    Outputs(SelectSeq(SubSeq(logs, 1, Max({0, Min({step + 1, Len(logs)})})),
                      IsPlainStdout))

\* Collect all stdout messages up to the current step (step is 0-based).
stdoutContent(logs, step) ==
    Outputs(SelectSeq(SubSeq(logs, 1, Max({0, Min({step + 1, Len(logs)})})),
                      IsStdout))

RECURSIVE stack(_, _)
stack(logs, step) ==
    IF step < 0 THEN <<>>
    ELSE IF step + 1 > Len(logs) THEN stack(logs, step - 1)
    ELSE StackEntry(stack(logs, step - 1), logs[step + 1])

-----------------------------------------------------------------------------
(* The syntax tree: the node builders of @babel/types the plugin uses, and *)
(* the statements of the submitted programs                                *)

NoNode == [type |-> "null"]

numericLiteral(n) == [type |-> "NumericLiteral", value |-> n]
stringLiteral(s) == [type |-> "StringLiteral", value |-> s]
booleanLiteral(b) == [type |-> "BooleanLiteral", value |-> b]
nullLiteral == [type |-> "NullLiteral"]
identifier(name) == [type |-> "Identifier", name |-> name]
binaryExpression(op, l, r) ==
    [type |-> "BinaryExpression", operator |-> op, left |-> l, right |-> r]
callExpression(callee, args) ==
    [type |-> "CallExpression", callee |-> callee, arguments |-> args]
memberExpression(object, property) ==
    [type |-> "MemberExpression", object |-> object, property |-> property]
arrayExpression(elements) == [type |-> "ArrayExpression", elements |-> elements]
newExpression(callee, args) ==
    [type |-> "NewExpression", callee |-> callee, arguments |-> args]
assignmentExpression(op, l, r) ==
    [type |-> "AssignmentExpression", operator |-> op, left |-> l, right |-> r]
updateExpression(op, argument) ==
    [type |-> "UpdateExpression", operator |-> op, argument |-> argument]
\* key: value of an object literal; the key is an identifier.
objectProperty(key, value) == <<key.name, value>>
objectExpression(properties) ==
    [type |-> "ObjectExpression", properties |-> properties]

expressionStatement(expression, line) ==
    [type |-> "ExpressionStatement", expression |-> expression, line |-> line]
blockStatement(body) == [type |-> "BlockStatement", body |-> body]
returnStatement(argument, line) ==
    [type |-> "ReturnStatement", argument |-> argument, line |-> line]
variableDeclaration(name, init, line) ==
    [type |-> "VariableDeclaration", id |-> identifier(name), init |-> init,
     line |-> line]
functionDeclaration(name, params, body, line) ==
    [type |-> "FunctionDeclaration", id |-> identifier(name),
     params |-> params, body |-> body, instrumented |-> FALSE, line |-> line]
ifStatement(test, consequent, alternate, line) ==
    [type |-> "IfStatement", test |-> test, consequent |-> consequent,
     alternate |-> alternate, line |-> line]
forStatement(init, test, update, body, line) ==
    [type |-> "ForStatement", init |-> init, test |-> test,
     update |-> update, body |-> body, line |-> line]
whileStatement(test, body, line) ==
    [type |-> "WhileStatement", test |-> test, body |-> body, line |-> line]
continueStatement(line) == [type |-> "ContinueStatement", line |-> line]
throwStatement(argument, line) ==
    [type |-> "ThrowStatement", argument |-> argument, line |-> line]

\* generate(node).code for the conditions of the submitted programs.
RECURSIVE generate(_)
generate(node) ==
    CASE node.type = "NumericLiteral" -> ToString(node.value)
      [] node.type = "Identifier" -> node.name
      [] node.type = "BinaryExpression" ->
             generate(node.left) \o " " \o node.operator \o " "
                 \o generate(node.right)
      [] OTHER -> "..."

cloneNode(node) == node

-----------------------------------------------------------------------------
(* babel-tracer: the plugin *)

getLine(node) == node.line

makeLog(node, type, extraProps) ==
    expressionStatement(
        callExpression(identifier("__log"),
            << objectExpression(
                   << objectProperty(identifier("action"), stringLiteral(type)),
                      objectProperty(identifier("line"),
                                     numericLiteral(getLine(node))) >>
                   \o extraProps) >>),
        getLine(node))

cloneCall(node) == callExpression(identifier("__clone"), <<node>>)

localsProp(key, value) ==
    objectProperty(identifier("locals"),
                   objectExpression(<< objectProperty(key, value) >>))

callLog(fn) ==
    makeLog(fn, "call",
        << objectProperty(identifier("function"), stringLiteral(fn.id.name)),
           objectProperty(identifier("args"),
               objectExpression([i \in 1..Len(fn.params) |->
                   objectProperty(fn.params[i], fn.params[i])])) >>)

\* The declare probe of a declaration, on the line of node `at`.
declareLogAt(at, decl) ==
    makeLog(at, "declare",
        << localsProp(identifier(decl.id.name),
               cloneCall(IF decl.init.type # "null" THEN cloneNode(decl.init)
                         ELSE identifier("undefined"))) >>)

declareLog(node) == declareLogAt(node, node)

\* The assign probe of an assignment statement: the identifier case, the
\* this.member case and the member case.
assignLog(stmt) ==
    LET node == stmt.expression
        isCompound == node.operator # "="
        targetKey == IF node.left.type = "Identifier" THEN node.left
                     ELSE IF node.left.object.type = "ThisExpression"
                     THEN identifier("this")
                     ELSE node.left.object
        valueToLog == IF node.left.type = "Identifier"
                      THEN (IF isCompound THEN node.left ELSE node.right)
                      ELSE (IF isCompound THEN node.left ELSE node.left.object)
    IN  makeLog(stmt, "assign", << localsProp(targetKey, cloneCall(cloneNode(valueToLog))) >>)

updateLog(stmt) ==
    makeLog(stmt, "assign",
        << localsProp(stmt.expression.argument,
                      cloneCall(cloneNode(stmt.expression.argument))) >>)

testLog(node) ==
    makeLog(node, "test",
        << objectProperty(identifier("expression"),
                          stringLiteral(generate(node.test))),
           objectProperty(identifier("result"), cloneNode(node.test)) >>)

returnLog(node) ==
    makeLog(node, "return",
        << objectProperty(identifier("value"),
               IF node.argument.type # "null"
               THEN cloneCall(cloneNode(node.argument)) ELSE nullLiteral) >>)

loopLog(node, kind) ==
    makeLog(node, "loop",
        << objectProperty(identifier("type"), stringLiteral(kind)) >>)

\* The test that takes no call for a print call.
isNeverConsoleLog(node) == FALSE

isConsoleLog(node) ==
    /\ node.type = "CallExpression"
    /\ node.callee.type = "MemberExpression"
    /\ node.callee.object.type = "Identifier"
    /\ node.callee.object.name = "console"
    /\ node.callee.property.type = "Identifier"
    /\ node.callee.property.name = "log"

stdoutLog(stmt) ==
    makeLog(stmt, "stdout",
        << objectProperty(identifier("output"),
               callExpression(
                   memberExpression(arrayExpression(stmt.expression.arguments),
                                    identifier("join")),
                   << stringLiteral(" ") >>)) >>)

\* The body of a block, or the statement as a one-statement body.
BodyOf(node) == IF node.type = "BlockStatement" THEN node.body ELSE <<node>>

\* The update clause as the last statement of the body, followed by the
\* assign probe of the updated variable.
MovedUpdate(node) ==
    IF node.update.type = "null" THEN <<>>
    ELSE LET updatedVar == IF node.update.type = "UpdateExpression"
                           THEN node.update.argument
                           ELSE IF node.update.type = "AssignmentExpression"
                           THEN node.update.left
                           ELSE NoNode
         IN  << expressionStatement(node.update, node.line) >>
             \o (IF updatedVar.type = "null" THEN <<>>
                 ELSE << makeLog(node, "assign",
                            << localsProp(updatedVar,
                                   cloneCall(cloneNode(updatedVar))) >>) >>)

\* No probe for the init clause.
NoInitLogs(node) == <<>>

\* The probes put before a for statement for its init clause.
InitLogs(node) ==
    IF node.init.type = "null" THEN <<>>
    ELSE IF node.init.type = "VariableDeclaration"
    THEN << declareLogAt(node, node.init) >>
    ELSE << makeLog(node, "init",
               << objectProperty(identifier("expression"),
                                 stringLiteral(generate(node.init))) >>) >>

\* The traversal: every statement of a list is visited in order, and the
\* statements a visitor puts into a body are visited with that body.
RECURSIVE Traverse(_), Visit(_)
Traverse(body) ==
    IF Len(body) = 0 THEN <<>>
    ELSE Visit(Head(body)) \o Traverse(Tail(body))

Visit(node) ==
    CASE node.type = "FunctionDeclaration" ->
             \* instrumentFunction
             IF node.instrumented THEN <<node>>
             ELSE << [node EXCEPT
                        !.body = blockStatement(
                                     <<callLog(node)>> \o Traverse(node.body.body)),
                        !.instrumented = TRUE] >>
      [] node.type = "IfStatement" ->
             << testLog(node),
                [node EXCEPT
                    !.consequent = blockStatement(Traverse(BodyOf(node.consequent))),
                    !.alternate = IF node.alternate.type = "null" THEN NoNode
                                  ELSE blockStatement(Traverse(BodyOf(node.alternate)))] >>
      [] node.type = "VariableDeclaration" ->
             << node, declareLog(node) >>
      [] node.type = "ExpressionStatement" ->
             IF node.expression.type = "AssignmentExpression"
             THEN << node, assignLog(node) >>
             ELSE IF node.expression.type = "UpdateExpression"
             THEN << node, updateLog(node) >>
             ELSE IF isConsoleLog(node.expression)
             THEN << stdoutLog(node) >>
             ELSE << node >>
      [] node.type = "ForStatement" ->
             InitLogs(node)
             \o << [node EXCEPT
                      !.update = NoNode,
                      !.body = blockStatement(Traverse(
                          (IF node.test.type = "null" THEN <<>>
                           ELSE << testLog(node) >>)
                          \o BodyOf(node.body) \o MovedUpdate(node)))] >>
      [] node.type = "WhileStatement" ->
             << [node EXCEPT
                    !.body = blockStatement(
                        Traverse(<<loopLog(node, "while")>> \o BodyOf(node.body)))] >>
      [] node.type = "ReturnStatement" ->
             << returnLog(node), node >>
      [] OTHER -> << node >>

tracerPlugin(program) == Traverse(program)

-----------------------------------------------------------------------------
(* The sandbox: the wrapped code and the machine that runs it.  A step of  *)
(* the machine runs one top-level statement or one turn of a loop head; an *)
(* expression, and the body of a function it calls, is evaluated whole.    *)

\* Most events __logs may hold before the model stops following the run.
MaxLogs == 16

BlockFrame(body) ==
    [kind |-> "block", body |-> body, i |-> 1, node |-> NoNode, phase |-> ""]
LoopFrame(node) ==
    [kind |-> "loop", body |-> <<>>, i |-> 1, node |-> node, phase |-> "test"]

IsFunction(node) == node.type = "FunctionDeclaration"

IdleVm ==
    [status |-> "idle", kont |-> <<>>, thrown |-> Undefined, funcs |-> <<>>,
     env |-> EmptyObject, loc |-> EmptyObject, inFn |-> FALSE, heap |-> <<>>,
     logs |-> <<>>, emitted |-> <<>>, effects |-> <<>>, out |-> <<>>,
     console |-> EmptyObject]

\* vm.runInContext(program, sandbox), about to run its first statement.
InitVm(program) ==
    [IdleVm EXCEPT !.status = "running", !.kont = <<BlockFrame(program)>>,
                   !.funcs = SelectSeq(program, IsFunction)]

Truthy(v) == v \notin {Undefined, Null, Bool(FALSE), Num(0), Str("")}

\* The variables in scope, innermost first.
IsLocal(m, name) == m.inFn /\ HasKey(m.loc, name)
Lookup(m, name) ==
    IF name = "undefined" THEN Undefined
    ELSE IF name = "console" THEN <<"obj", m.console>>
    ELSE IF IsLocal(m, name) THEN Get(m.loc, name) ELSE Get(m.env, name)
Visible(m) ==
    Spread(IF m.console = EmptyObject THEN EmptyObject
           ELSE << <<"console", <<"obj", m.console>> >> >>,
           IF m.inFn THEN Spread(m.env, m.loc) ELSE m.env)

Write(m, name, v) ==
    [(IF IsLocal(m, name) THEN [m EXCEPT !.loc = SetKey(@, name, v)]
                          ELSE [m EXCEPT !.env = SetKey(@, name, v)])
     EXCEPT !.effects = Append(@, <<"write", name, JSONValue(v, m.heap)>>)]

Declare(m, name, v) ==
    [(IF m.inFn THEN [m EXCEPT !.loc = SetKey(@, name, v)]
                ELSE [m EXCEPT !.env = SetKey(@, name, v)])
     EXCEPT !.effects = Append(@, <<"write", name, JSONValue(v, m.heap)>>)]

\* String(v) of a primitive, as Array.prototype.join writes an element.
StringOf(v) ==
    CASE v[1] = "str" -> v[2]
      [] v[1] = "num" -> ToString(v[2])
      [] v[1] = "bool" -> IF v[2] = 1 THEN "true" ELSE "false"
      [] OTHER -> ""

RECURSIVE join(_, _)
join(elements, separator) ==
    IF Len(elements) = 0 THEN ""
    ELSE IF Len(elements) = 1 THEN StringOf(elements[1])
    ELSE StringOf(elements[1]) \o separator \o join(Tail(elements), separator)

\* function __clone(val): JSON.parse(JSON.stringify(val)), or val itself
\* when that throws (undefined).
clone(val, heap) ==
    IF val = Undefined THEN val
    ELSE IF val[1] = "error" THEN <<"obj", EmptyObject>>
    ELSE JSONparse(JSONValue(val, heap))

Properties(v) == IF v[1] = "obj" THEN v[2] ELSE EmptyObject

\* The object handed to __log, read as filterLogs reads it.
EventOf(e) ==
    Event(Get(e, "action")[2], Get(e, "line")[2],
          Properties(Get(e, "args")), Properties(Get(e, "locals")),
          Get(e, "value"), Get(e, "output"),
          IF HasKey(e, "expression") THEN Get(e, "expression")[2] ELSE "",
          Get(e, "result"),
          IF HasKey(e, "function") THEN Get(e, "function")[2] ELSE "")

\* A for loop with a test begins a turn: kept among the effects, to count
\* the turns such a loop takes.
IsTurn(effect) == effect[1] = "turn"

Counted(node) == node.type = "ForStatement" /\ node.test.type # "null"

\* function __log(e) { __logs.push(e); }   `emitted` keeps, beside each
\* event, what it and the variables in scope showed when it was pushed,
\* and how many turns the loops of the program had begun.
log(m, e) ==
    LET event == EventOf(e)
    IN  [m EXCEPT !.logs = Append(@, event),
                  !.emitted = Append(@,
                      [args |-> JSONstringify(event.args, m.heap),
                       locals |-> JSONstringify(event.locals, m.heap),
                       scope |-> JSONstringify(Visible(m), m.heap),
                       turns |-> Len(SelectSeq(m.effects, IsTurn))])]

FunctionNamed(m, name) ==
    m.funcs[CHOOSE i \in 1..Len(m.funcs) : m.funcs[i].id.name = name]

Result(v, m) == [v |-> v, m |-> m]
Completion(m, returned, v) == [m |-> m, returned |-> returned, v |-> v]

Arith(op, a, b) ==
    CASE op = "+" -> Num(a[2] + b[2])
      [] op = "<" -> Bool(a[2] < b[2])
      [] op = ">" -> Bool(a[2] > b[2])
      [] op = "==" -> Bool(a = b)
      [] OTHER -> Undefined

RECURSIVE Eval(_, _), EvalList(_, _), EvalProperties(_, _), EvalCall(_, _),
          ExecBody(_, _)

\* The values of a list of expressions, left to right.
EvalList(nodes, m) ==
    IF Len(nodes) = 0 THEN Result(<<>>, m)
    ELSE Then(Eval(Head(nodes), m), LAMBDA first :
         Then(EvalList(Tail(nodes), first.m), LAMBDA rest :
             Result(<<first.v>> \o rest.v, rest.m)))

EvalProperties(properties, m) ==
    IF Len(properties) = 0 THEN Result(EmptyObject, m)
    ELSE Then(Eval(Head(properties)[2], m), LAMBDA first :
         Then(EvalProperties(Tail(properties), first.m), LAMBDA rest :
             Result(<< <<Head(properties)[1], first.v>> >> \o rest.v,
                    rest.m)))

EvalCall(node, m) ==
    LET callee == node.callee
    IN  IF callee.type = "MemberExpression"
        THEN IF callee.object.type = "Identifier" /\ callee.object.name = "console"
             THEN \* the console of the host, handed to the sandbox
                  Then(EvalList(node.arguments, m), LAMBDA args :
                      Result(Undefined,
                             [args.m EXCEPT !.out = Append(@, join(args.v, " "))]))
             ELSE Then(Eval(callee.object, m), LAMBDA object :
                  Then(EvalList(node.arguments, object.m), LAMBDA args :
                      LET elements == args.m.heap[object.v[2]]
                      IN  IF callee.property.name = "push"
                          THEN Result(Num(Len(elements) + 1),
                                   [args.m EXCEPT
                                       !.heap[object.v[2]] = Append(@, args.v[1]),
                                       !.effects =
                                           Append(@, <<"push", args.v[1]>>)])
                          ELSE \* join
                               Result(Str(join(elements, args.v[1][2])),
                                      args.m)))
        ELSE IF callee.name = "__log"
        THEN Then(EvalList(node.arguments, m), LAMBDA args :
                 Result(Undefined, log(args.m, Properties(args.v[1]))))
        ELSE IF callee.name = "__clone"
        THEN Then(EvalList(node.arguments, m), LAMBDA args :
                 Result(clone(args.v[1], args.m.heap), args.m))
        ELSE \* a function of the submitted program
             LET fn == FunctionNamed(m, callee.name)
             IN  Then(EvalList(node.arguments, m), LAMBDA args :
                 Then([args.m EXCEPT
                          !.inFn = TRUE,
                          !.loc = [i \in 1..Len(fn.params) |->
                                      <<fn.params[i].name,
                                        IF i <= Len(args.v) THEN args.v[i]
                                        ELSE Undefined>>],
                          !.effects = Append(@, <<"call", callee.name>>)],
                      LAMBDA entered :
                 Then(ExecBody(fn.body.body, entered), LAMBDA done :
                     Result(done.v,
                            [done.m EXCEPT !.inFn = m.inFn, !.loc = m.loc]))))

Eval(node, m) ==
    CASE node.type = "NumericLiteral" -> Result(Num(node.value), m)
      [] node.type = "StringLiteral" -> Result(Str(node.value), m)
      [] node.type = "BooleanLiteral" -> Result(Bool(node.value), m)
      [] node.type = "NullLiteral" -> Result(Null, m)
      [] node.type = "Identifier" -> Result(Lookup(m, node.name), m)
      [] node.type = "BinaryExpression" ->
             Then(Eval(node.left, m), LAMBDA l :
             Then(Eval(node.right, l.m), LAMBDA r :
                 Result(Arith(node.operator, l.v, r.v), r.m)))
      [] node.type = "ArrayExpression" ->
             Then(EvalList(node.elements, m), LAMBDA elements :
                 Result(Ref(Len(elements.m.heap) + 1),
                        [elements.m EXCEPT !.heap = Append(@, elements.v)]))
      [] node.type = "ObjectExpression" ->
             Then(EvalProperties(node.properties, m), LAMBDA properties :
                 Result(<<"obj", properties.v>>, properties.m))
      [] node.type = "NewExpression" ->
             Then(EvalList(node.arguments, m), LAMBDA args :
                 Result(<<"error", args.v[1][2]>>, args.m))
      [] node.type = "MemberExpression" ->
             Then(Eval(node.object, m), LAMBDA object :
                 Result(Get(Properties(object.v), node.property.name),
                        object.m))
      [] node.type = "AssignmentExpression"
             /\ node.left.type = "MemberExpression" ->
             \* console.name = right: the console is the one of the host
             Then(Eval(node.right, m), LAMBDA r :
                 Result(r.v,
                        [r.m EXCEPT
                            !.console = SetKey(@, node.left.property.name, r.v),
                            !.effects = Append(@,
                                <<"write",
                                  "console." \o node.left.property.name,
                                  r.v>>)]))
      [] node.type = "AssignmentExpression"
             /\ node.left.type # "MemberExpression" ->
             Then(Eval(node.right, m), LAMBDA r :
                 LET v == IF node.operator = "=" THEN r.v
                          ELSE Arith("+", Lookup(r.m, node.left.name), r.v)
                 IN  Result(v, Write(r.m, node.left.name, v)))
      [] node.type = "UpdateExpression" ->
             LET old == Lookup(m, node.argument.name)
             IN  Result(old, Write(m, node.argument.name, Num(old[2] + 1)))
      [] node.type = "CallExpression" -> EvalCall(node, m)
      [] OTHER -> Result(Undefined, m)

\* let id = init;
Initialized(decl, m) ==
    Then(IF decl.init.type = "null" THEN Result(Undefined, m)
         ELSE Eval(decl.init, m),
         LAMBDA r : Declare(r.m, decl.id.name, r.v))

\* The body of a function, to its return statement or its end.  The
\* functions of the submitted programs hold no loops.
ExecBody(body, m) ==
    IF Len(body) = 0 THEN Completion(m, FALSE, Undefined)
    ELSE LET node == Head(body)
         IN  CASE node.type = "ReturnStatement" ->
                      IF node.argument.type = "null"
                      THEN Completion(m, TRUE, Undefined)
                      ELSE Then(Eval(node.argument, m), LAMBDA r :
                               Completion(r.m, TRUE, r.v))
               [] node.type = "ExpressionStatement" ->
                      Then(Eval(node.expression, m), LAMBDA r :
                          ExecBody(Tail(body), r.m))
               [] node.type = "VariableDeclaration" ->
                      Then(Initialized(node, m), LAMBDA n :
                          ExecBody(Tail(body), n))
               [] node.type = "IfStatement" ->
                      Then(Eval(node.test, m), LAMBDA t :
                      Then(ExecBody(IF Truthy(t.v) THEN BodyOf(node.consequent)
                                    ELSE IF node.alternate.type = "null" THEN <<>>
                                    ELSE BodyOf(node.alternate), t.m),
                           LAMBDA inner :
                               IF inner.returned THEN inner
                               ELSE ExecBody(Tail(body), inner.m)))
               [] OTHER -> ExecBody(Tail(body), m)

Top(m) == m.kont[Len(m.kont)]
Pop(m) == [m EXCEPT !.kont = SubSeq(@, 1, Len(@) - 1)]
Push(m, frame) == [m EXCEPT !.kont = Append(@, frame)]

\* The frames up to the innermost loop.
RECURSIVE ToLoop(_)
ToLoop(kont) ==
    IF Len(kont) = 0 \/ kont[Len(kont)].kind = "loop" THEN kont
    ELSE ToLoop(SubSeq(kont, 1, Len(kont) - 1))

\* One top-level statement.
ExecStatement(node, m) ==
    CASE node.type = "ExpressionStatement" -> Eval(node.expression, m).m
      [] node.type = "VariableDeclaration" -> Initialized(node, m)
      [] node.type = "IfStatement" ->
             Then(Eval(node.test, m), LAMBDA t :
                 IF Truthy(t.v) THEN Push(t.m, BlockFrame(BodyOf(node.consequent)))
                 ELSE IF node.alternate.type = "null" THEN t.m
                 ELSE Push(t.m, BlockFrame(BodyOf(node.alternate))))
      [] node.type = "ForStatement" ->
             Then(IF node.init.type = "null" THEN m
                  ELSE IF node.init.type = "VariableDeclaration"
                  THEN Initialized(node.init, m)
                  ELSE Eval(node.init, m).m,
                  LAMBDA n : Push(n, LoopFrame(node)))
      [] node.type = "WhileStatement" -> Push(m, LoopFrame(node))
      [] node.type = "ContinueStatement" -> [m EXCEPT !.kont = ToLoop(@)]
      [] node.type = "ThrowStatement" ->
             Then(Eval(node.argument, m), LAMBDA r :
                 [r.m EXCEPT !.status = "thrown", !.thrown = r.v])
      [] OTHER -> m

\* The head of a loop: its test, and for a for statement its update after
\* each turn of the body.
LoopHead(m) ==
    LET node == Top(m).node
    IN  IF Top(m).phase = "update"
        THEN Then(IF node.type = "ForStatement" /\ node.update.type # "null"
                  THEN Eval(node.update, m).m ELSE m,
                  LAMBDA n : [n EXCEPT !.kont[Len(m.kont)].phase = "test"])
        ELSE Then(IF node.test.type = "null" THEN Result(Bool(TRUE), m)
                  ELSE Eval(node.test, m),
                  LAMBDA t :
                      IF Truthy(t.v)
                      THEN Push([t.m EXCEPT
                                    !.kont[Len(m.kont)].phase = "update",
                                    !.effects = IF Counted(node)
                                        THEN Append(@, <<"turn", node.line>>)
                                        ELSE @],
                                BlockFrame(BodyOf(node.body)))
                      ELSE Pop(t.m))

Step(m) ==
    IF Len(m.kont) = 0 THEN [m EXCEPT !.status = "done"]
    ELSE IF Top(m).kind = "loop" THEN LoopHead(m)
    ELSE IF Top(m).i > Len(Top(m).body) THEN Pop(m)
    ELSE Then([m EXCEPT !.kont[Len(m.kont)].i = @ + 1], LAMBDA n :
             ExecStatement(Top(m).body[Top(m).i], n))

-----------------------------------------------------------------------------
(* The submitted programs *)

Programs ==
    {"add", "sum", "define", "print", "while", "for", "throwError",
     "throwNull", "throwString", "counter", "continue", "push", "nested",
     "shadow", "prints", "store", "recall", "malformed"}

\* function add(a, b) { return a + b; }
\* add(2, 3);
ProgramAdd ==
    << functionDeclaration("add", <<identifier("a"), identifier("b")>>,
           blockStatement(<< returnStatement(
               binaryExpression("+", identifier("a"), identifier("b")), 1) >>), 1),
       expressionStatement(
           callExpression(identifier("add"),
                          <<numericLiteral(2), numericLiteral(3)>>), 2) >>

\* let x = 1;
\* for (let i = 0; i < 3; i++) { x = x + i; }
ProgramSum ==
    << variableDeclaration("x", numericLiteral(1), 1),
       forStatement(variableDeclaration("i", numericLiteral(0), 2),
           binaryExpression("<", identifier("i"), numericLiteral(3)),
           updateExpression("++", identifier("i")),
           blockStatement(<< expressionStatement(
               assignmentExpression("=", identifier("x"),
                   binaryExpression("+", identifier("x"), identifier("i"))), 2) >>),
           2) >>

\* function f() {}
ProgramDefine ==
    << functionDeclaration("f", <<>>, blockStatement(<<>>), 1) >>

\* console.log("a", "b");
ProgramPrint ==
    << expressionStatement(
           callExpression(memberExpression(identifier("console"), identifier("log")),
                          <<stringLiteral("a"), stringLiteral("b")>>), 1) >>

\* console.log("a");
\* if (true) { console.log("b", 1); }
ProgramPrints ==
    << expressionStatement(
           callExpression(memberExpression(identifier("console"), identifier("log")),
                          <<stringLiteral("a")>>), 1),
       ifStatement(booleanLiteral(TRUE),
           blockStatement(<<
               expressionStatement(
                   callExpression(
                       memberExpression(identifier("console"), identifier("log")),
                       <<stringLiteral("b"), numericLiteral(1)>>), 2) >>),
           NoNode, 2) >>

\* while (true) {}
ProgramWhile ==
    << whileStatement(booleanLiteral(TRUE), blockStatement(<<>>), 1) >>

\* for (;;) {}
ProgramFor ==
    << forStatement(NoNode, NoNode, NoNode, blockStatement(<<>>), 1) >>

\* let x = 1;
\* throw <argument>;
ProgramThrow(argument) ==
    << variableDeclaration("x", numericLiteral(1), 1),
       throwStatement(argument, 2) >>

\* let c = 0;
\* function f() { c = c + 1; return c; }
\* let x = f();
ProgramCounter ==
    << variableDeclaration("c", numericLiteral(0), 1),
       functionDeclaration("f", <<>>,
           blockStatement(<<
               expressionStatement(
                   assignmentExpression("=", identifier("c"),
                       binaryExpression("+", identifier("c"), numericLiteral(1))), 2),
               returnStatement(identifier("c"), 2) >>), 2),
       variableDeclaration("x", callExpression(identifier("f"), <<>>), 3) >>

\* function tick() {}
\* for (let i = 0; i < 2; i++) { tick(); if (i == 0) continue; }
ProgramContinue ==
    << functionDeclaration("tick", <<>>, blockStatement(<<>>), 1),
       forStatement(variableDeclaration("i", numericLiteral(0), 2),
           binaryExpression("<", identifier("i"), numericLiteral(2)),
           updateExpression("++", identifier("i")),
           blockStatement(<<
               expressionStatement(callExpression(identifier("tick"), <<>>), 2),
               ifStatement(
                   binaryExpression("==", identifier("i"), numericLiteral(0)),
                   continueStatement(2), NoNode, 2) >>),
           2) >>

\* function f(a) { a.push(2); return a; }
\* f([1]);
ProgramPush ==
    << functionDeclaration("f", <<identifier("a")>>,
           blockStatement(<<
               expressionStatement(
                   callExpression(memberExpression(identifier("a"), identifier("push")),
                                  <<numericLiteral(2)>>), 1),
               returnStatement(identifier("a"), 1) >>), 1),
       expressionStatement(
           callExpression(identifier("f"),
                          << arrayExpression(<<numericLiteral(1)>>) >>), 2) >>

\* function g() { return 1; }
\* function f() { g(); return 2; }
\* f();
ProgramNested ==
    << functionDeclaration("g", <<>>,
           blockStatement(<< returnStatement(numericLiteral(1), 1) >>), 1),
       functionDeclaration("f", <<>>,
           blockStatement(<<
               expressionStatement(callExpression(identifier("g"), <<>>), 2),
               returnStatement(numericLiteral(2), 2) >>), 2),
       expressionStatement(callExpression(identifier("f"), <<>>), 3) >>

\* function g(x) { x = 2; return x; }
\* function f(x) { g(0); return x; }
\* f(1);
ProgramShadow ==
    << functionDeclaration("g", <<identifier("x")>>,
           blockStatement(<<
               expressionStatement(
                   assignmentExpression("=", identifier("x"),
                                        numericLiteral(2)), 1),
               returnStatement(identifier("x"), 1) >>), 1),
       functionDeclaration("f", <<identifier("x")>>,
           blockStatement(<<
               expressionStatement(
                   callExpression(identifier("g"), <<numericLiteral(0)>>), 2),
               returnStatement(identifier("x"), 2) >>), 2),
       expressionStatement(
           callExpression(identifier("f"), <<numericLiteral(1)>>), 3) >>

\* console.x = 1;
ProgramStore ==
    << expressionStatement(
           assignmentExpression("=",
               memberExpression(identifier("console"), identifier("x")),
               numericLiteral(1)), 1) >>

\* let y = console.x;
ProgramRecall ==
    << variableDeclaration("y",
           memberExpression(identifier("console"), identifier("x")), 1) >>

\* The tree the parser hands the plugin ("malformed" has none: it does not
\* parse).
Parsed(name) ==
    CASE name = "add" -> ProgramAdd
      [] name = "sum" -> ProgramSum
      [] name = "define" -> ProgramDefine
      [] name = "print" -> ProgramPrint
      [] name = "while" -> ProgramWhile
      [] name = "for" -> ProgramFor
      [] name = "throwError" ->
             ProgramThrow(newExpression(identifier("Error"),
                                        <<stringLiteral("boom")>>))
      [] name = "throwNull" -> ProgramThrow(nullLiteral)
      [] name = "throwString" -> ProgramThrow(stringLiteral("boom"))
      [] name = "counter" -> ProgramCounter
      [] name = "continue" -> ProgramContinue
      [] name = "push" -> ProgramPush
      [] name = "nested" -> ProgramNested
      [] name = "shadow" -> ProgramShadow
      [] name = "prints" -> ProgramPrints
      [] name = "store" -> ProgramStore
      [] name = "recall" -> ProgramRecall
      [] OTHER -> <<>>

-----------------------------------------------------------------------------
(* The request handler around the sandbox *)

SyntaxError == <<"error", "Unexpected token">>

\* transformSync(code, { plugins: [tracerPlugin] }), the sandbox and the
\* wrapped code; a program that does not parse throws.  The sandbox is
\* { module: {}, console }: its console is the console object of the host,
\* with whatever properties it holds by now.
HandlerTransform ==
    /\ pc = "transform"
    /\ IF code = "malformed"
       THEN /\ vm' = [IdleVm EXCEPT !.status = "thrown", !.thrown = SyntaxError,
                                    !.console = vm.console]
            /\ pc' = "catch"
       ELSE /\ vm' = [InitVm(tracerPlugin(Parsed(code)))
                         EXCEPT !.console = vm.console]
            /\ pc' = "run"
    /\ UNCHANGED <<code, rawLogs, executionRun, idx, currentState,
                   lastPushedState, pendingContext, frames, response>>
    /\ UNCHANGED elsewhere

\* vm.runInContext(wrappedCode, sandbox), a step of it.
VmStep ==
    /\ pc = "run"
    /\ vm.status = "running"
    /\ Len(vm.logs) < MaxLogs
    /\ vm' = Step(vm)
    /\ pc' = IF vm'.status = "thrown" THEN "catch" ELSE "run"
    /\ UNCHANGED <<code, rawLogs, executionRun, idx, currentState,
                   lastPushedState, pendingContext, frames, response>>
    /\ UNCHANGED elsewhere

\* The run has filled __logs to the bound of the model and goes on; the
\* model follows it no further.
VmCut ==
    /\ pc = "run"
    /\ vm.status = "running"
    /\ Len(vm.logs) >= MaxLogs
    /\ pc' = "cut"
    /\ UNCHANGED <<code, vm, rawLogs, executionRun, idx, currentState,
                   lastPushedState, pendingContext, frames, response>>
    /\ UNCHANGED elsewhere

\* const rawLogs = sandbox.module.exports;
VmReturn ==
    /\ pc = "run"
    /\ vm.status = "done"
    /\ rawLogs' = vm.logs
    /\ pc' = "select"
    /\ UNCHANGED <<code, vm, executionRun, idx, currentState,
                   lastPushedState, pendingContext, frames, response>>
    /\ UNCHANGED elsewhere

\* err.message: of an Error its message, of another object or a primitive
\* undefined; reading it of null or undefined throws a TypeError.
HasMessage(err) == err \notin {Null, Undefined}
message(err) == IF err[1] = "error" THEN Str(err[2]) ELSE Undefined

ErrorFrame(msg) ==
    [Frame(NoAction, NoLine, EmptyObject, NoContext, Undefined, Undefined)
     EXCEPT !.error = msg]

\* catch (err) { finalFrames = [{ error: err.message, locals: {} }]; } and
\* res.json; a TypeError thrown inside the catch block leaves the handler.
HandlerCatch ==
    /\ pc = "catch"
    /\ IF HasMessage(vm.thrown)
       THEN /\ response' = [ok |-> TRUE,
                            logs |-> <<ErrorFrame(message(vm.thrown))>>]
            /\ pc' = "done"
       ELSE /\ response' = [ok |-> FALSE, logs |-> <<>>]
            /\ pc' = "failed"
    /\ UNCHANGED <<code, vm, rawLogs, executionRun, idx, currentState,
                   lastPushedState, pendingContext, frames>>
    /\ UNCHANGED elsewhere

InitRun ==
    /\ pc = "transform"
    /\ code \in Programs
    /\ vm = IdleVm
    /\ rawLogs = <<>>
    /\ executionRun = <<>>
    /\ idx = 1
    /\ currentState = EmptyObject
    /\ lastPushedState = NullState
    /\ pendingContext = NoContext
    /\ frames = <<>>
    /\ response = [ok |-> TRUE, logs |-> <<>>]
    /\ legacy = LegacyStart
    /\ home = HomeStart
    /\ visualizer = VisualizerStart
    /\ fetches = <<>>

NextRun ==
    \/ HandlerTransform
    \/ VmStep
    \/ VmCut
    \/ VmReturn
    \/ HandlerCatch
    \/ HandlerSelect
    \/ FilterLogsIter
    \/ HandlerRespond

SpecRun == InitRun /\ [][NextRun]_vars

\* app.post("/api/code/run", (req, res) => { const { code } = req.body;
\* the next request, taken when the handler has finished the one before.
\* What the variables of the handler held is left where it was.
Receive ==
    /\ pc \in {"done", "failed"}
    /\ code' \in Programs
    /\ pc' = "transform"
    /\ UNCHANGED <<vm, rawLogs, executionRun, idx, currentState,
                   lastPushedState, pendingContext, frames, response>>
    /\ UNCHANGED elsewhere

NextServer ==
    \/ NextRun
    \/ Receive

\* The server answering one request after another.
SpecServer == InitRun /\ [][NextServer]_vars

\* The handler runs to its end without being suspended.
FairSpecRun == SpecRun /\ WF_vars(NextRun)

-----------------------------------------------------------------------------
(* The reducer on any raw event list *)

X1 == << <<"x", Num(1)>> >>
X2 == << <<"x", Num(2)>> >>
XUndefined == << <<"x", Undefined>> >>

EventShapes ==
    { Event("call", 0, X1, EmptyObject, Undefined, Undefined, "", Undefined, "f"),
      Event("return", 0, EmptyObject, EmptyObject, Num(1), Undefined, "", Undefined, ""),
      Event("declare", 0, EmptyObject, X1, Undefined, Undefined, "", Undefined, ""),
      Event("declare", 0, EmptyObject, XUndefined, Undefined, Undefined, "", Undefined, ""),
      Event("assign", 0, EmptyObject, X2, Undefined, Undefined, "", Undefined, ""),
      Event("test", 0, EmptyObject, EmptyObject, Undefined, Undefined, "x > 0", Bool(TRUE), ""),
      Event("test", 0, EmptyObject, EmptyObject, Undefined, Undefined, "x > 1", Bool(FALSE), ""),
      Event("loop", 0, EmptyObject, EmptyObject, Undefined, Undefined, "", Undefined, ""),
      Event("class", 0, EmptyObject, EmptyObject, Undefined, Undefined, "", Undefined, ""),
      Event("stdout", 0, EmptyObject, EmptyObject, Undefined, Str("a"), "", Undefined, ""),
      Event("stdout", 0, EmptyObject, EmptyObject, Undefined, Str("b"), "", Undefined, "") }

\* Each event on a line of its own, in program order.
Numbered(s) == [i \in 1..Len(s) |-> [s[i] EXCEPT !.line = i]]

RawLogLists ==
    { Numbered(s) : s \in UNION { [1..n -> EventShapes] : n \in 0..MaxLen } }

Init ==
    /\ pc = "select"
    /\ code = "(events)"
    /\ vm = IdleVm
    /\ rawLogs \in RawLogLists
    /\ executionRun = <<>>
    /\ idx = 1
    /\ currentState = EmptyObject
    /\ lastPushedState = NullState
    /\ pendingContext = NoContext
    /\ frames = <<>>
    /\ response = [ok |-> TRUE, logs |-> <<>>]
    /\ legacy = LegacyStart
    /\ home = HomeStart
    /\ visualizer = VisualizerStart
    /\ fetches = <<>>

Next ==
    \/ HandlerSelect
    \/ FilterLogsIter
    \/ HandlerRespond

Spec == Init /\ [][Next]_vars

-----------------------------------------------------------------------------
(* Claims about run selection, the frame filter and the call stack *)

Selected == pc \in {"filter", "done"}

\* The number of calls open after the first n entries of logs: a call opens
\* one, a return closes the innermost open one.
RECURSIVE OpenCalls(_, _)
OpenCalls(logs, n) ==
    IF n = 0 THEN 0
    ELSE LET d == OpenCalls(logs, n - 1)
         IN  IF logs[n].action = "call" THEN d + 1
             ELSE IF logs[n].action = "return" /\ d > 0 THEN d - 1
             ELSE d

TopLevelCalls(logs) ==
    {i \in 1..Len(logs) : logs[i].action = "call" /\ OpenCalls(logs, i - 1) = 0}

\* Every call of the list is closed by a return of the list, and every
\* return closes a call: the nesting of the calls can be read off the list.
WellNested(logs) ==
    /\ OpenCalls(logs, Len(logs)) = 0
    /\ \A n \in 1..Len(logs) :
           logs[n].action = "return" => OpenCalls(logs, n - 1) > 0

\* C1: when the raw list has a call event, the selected run is the suffix
\* of the raw list that starts at the last top-level call event (a call made
\* while no other call is open).  Stated for the lists whose calls are all
\* closed by their returns.
C1_RunStartsAtLastTopLevelCall ==
    (Selected /\ WellNested(rawLogs) /\ TopLevelCalls(rawLogs) # {})
        => executionRun =
               SubSeq(rawLogs, Max(TopLevelCalls(rawLogs)), Len(rawLogs))

NoCallIn(logs) == \A i \in 1..Len(logs) : logs[i].action # "call"

\* C2: when the raw list has no call event, the selected run is the whole
\* raw list, unchanged and in the same order (the empty list for the empty
\* list).
C2_NoCallSelectsWholeList ==
    (Selected /\ NoCallIn(rawLogs)) => executionRun = rawLogs

C2_Witness ==
    /\ Selected
    /\ NoCallIn(rawLogs)
    /\ Len(rawLogs) >= 3
    /\ \E i \in 1..Len(rawLogs) : rawLogs[i].action = "return"
    /\ executionRun = rawLogs

\* The args and locals of the first j events of the run, merged in order.
RECURSIVE AccumulatedLocals(_, _)
AccumulatedLocals(run, j) ==
    IF j = 0 THEN EmptyObject
    ELSE LET before == AccumulatedLocals(run, j - 1)
         IN  Spread(IF run[j].action = "call"
                    THEN Spread(before, run[j].args) ELSE before,
                    run[j].locals)

\* The frames made from event j of the run (the events of a raw list drawn
\* by Init are on lines of their own).
FramesOf(j) ==
    {k \in 1..Len(frames) : frames[k].line = executionRun[j].line}

FramesBefore(j) ==
    {k \in 1..Len(frames) : frames[k].line < executionRun[j].line}

MustEmit(j) ==
    /\ executionRun[j].action # "test"
    /\ \/ executionRun[j].action \in {"call", "return", "stdout"}
       \/ FramesBefore(j) = {}
       \/ JSONstringify(AccumulatedLocals(executionRun, j), vm.heap)
              # JSONstringify(frames[Max(FramesBefore(j))].locals, vm.heap)

C4_StackDepthIsCallsMinusReturns ==
    pc = "done" =>
        \A step \in 0..(Len(response.logs) - 1) :
            Len(stack(response.logs, step)) = OpenCalls(response.logs, step + 1)

-----------------------------------------------------------------------------
(* Claims about the handler, the sandbox and the plugin *)

\* Most steps the reference run of a submitted program is followed.
MaxSteps == 40

\* The machine after at most fuel steps.
RECURSIVE Run(_, _)
Run(m, fuel) ==
    IF m.status # "running" \/ fuel = 0 THEN m
    ELSE Then(Step(m), LAMBDA next : Run(next, fuel - 1))

\* The submitted program run as it is, without the plugin.
Reference(name) == Run(InitVm(Parsed(name)), MaxSteps)

IsPrefix(s, t) == Len(s) <= Len(t) /\ s = SubSeq(t, 1, Len(s))

Answered == pc \in {"done", "failed"}

\* C5: when instrumentation or the run in the sandbox throws, the response
\* is exactly one frame that carries the error message and empty locals,
\* no recorded event is in it, and the handler itself does not fail.
C5_ThrowAnswersOneErrorFrame ==
    (Answered /\ vm.status = "thrown") =>
        /\ response.ok
        /\ Len(response.logs) = 1
        /\ response.logs[1].error # Undefined
        /\ response.logs[1].locals = EmptyObject
        /\ response.logs[1].action = NoAction

\* C6: every request is answered in the end, also one whose program loops
\* for ever (a run the model follows no further counts as answered).
C6_RequestIsAnswered == <>(Answered \/ pc = "cut")

\* C7: a run of the instrumented program that ends has called the
\* functions of the program and written its variables as often, in the
\* same order and with the same values as the run of the original.
C7_InstrumentedRunHasSameEffects ==
    (pc # "transform" /\ vm.status = "done"
         /\ Reference(code).status = "done")
        => vm.effects = Reference(code).effects

HasFor(program) ==
    \E i \in 1..Len(program) : program[i].type = "ForStatement"

\* C8: for a program with a counted for loop, the calls and writes of
\* init, body and update happen in the instrumented run in the order of
\* the original loop and as often: at every moment they are a prefix of
\* those of the original run, and all of them when the run has ended.
C8_ForLoopKeepsIterationsAndOrder ==
    (pc # "transform" /\ HasFor(Parsed(code))
         /\ Reference(code).status = "done")
        => /\ IsPrefix(vm.effects, Reference(code).effects)
           /\ vm.status = "done" => vm.effects = Reference(code).effects

AssignedValues(logs, name) ==
    LET assigns == SelectSeq(logs,
            LAMBDA e : e.action = "assign" /\ HasKey(e.locals, name))
    IN  [i \in 1..Len(assigns) |-> Get(assigns[i].locals, name)]

\* C9: an assign event records for its variable the value the variable
\* holds when the event is emitted, right after the assignment; for
\* `let x = 1; for (let i=0;i<3;i++){ x = x+i; }` the assign events of x
\* carry 1, 2, 4 and the run ends with x = 4, i = 3.
C9_AssignRecordsValueAfterAssignment ==
    /\ \A i \in 1..Len(vm.logs) :
           vm.logs[i].action = "assign" =>
               \A p \in 1..Len(vm.logs[i].locals) :
                   vm.logs[i].locals[p][2]
                       = Get(vm.emitted[i].scope, vm.logs[i].locals[p][1])
    /\ (code = "sum" /\ pc = "done") =>
           /\ AssignedValues(rawLogs, "x") = <<Num(1), Num(2), Num(4)>>
           /\ Get(response.logs[Len(response.logs)].locals, "x") = Num(4)
           /\ Get(response.logs[Len(response.logs)].locals, "i") = Num(3)

\* C10: what an event shows of its args and locals is what it showed when
\* it was emitted, whatever the program did to the arrays since.
C10_EventValuesAreSnapshots ==
    \A i \in 1..Len(vm.logs) :
        /\ JSONstringify(vm.logs[i].args, vm.heap) = vm.emitted[i].args
        /\ JSONstringify(vm.logs[i].locals, vm.heap) = vm.emitted[i].locals

-----------------------------------------------------------------------------
(* Claims about the frames the filter builds *)

\* The event of the run a frame was made from, and the frame of an event.
EventIndex(k) ==
    CHOOSE j \in 1..Len(executionRun) : executionRun[j].line = frames[k].line

TestsBetween(from, to) ==
    {j \in (from + 1)..(to - 1) : executionRun[j].action = "test"}

\* The first frame made from an event after event j, 0 when there is none.
NextFrameAfter(j) ==
    LET later == {k \in 1..Len(frames) : EventIndex(k) > j}
    IN  IF later = {} THEN 0 ELSE CHOOSE k \in later : \A l \in later : k <= l

\* C11 as stated: a test event yields no frame of its own; its condition
\* and result are the context of the next frame emitted after it, whose
\* action is '<action> (after test)'; a frame emitted later carries that
\* context only when another test event came in between.
C11_EveryTestContextReachesNextFrame ==
    Selected =>
        \A j \in 1..(idx - 1) :
            executionRun[j].action = "test" =>
                /\ FramesOf(j) = {}
                /\ LET k == NextFrameAfter(j)
                   IN  k # 0 =>
                       /\ frames[k].context = TestContext(executionRun[j])
                       /\ frames[k].action =
                              executionRun[EventIndex(k)].action
                                  \o " (after test)"
                       /\ \A l \in (k + 1)..Len(frames) :
                              TestsBetween(EventIndex(k), EventIndex(l)) = {}
                                  => frames[l].context = NoContext

\* C11, amended: a test event yields no frame of its own; a frame carries
\* the context of the last test event processed since the frame before it
\* and the action '<action> (after test)', and a frame with no test event
\* since the frame before it carries no context and the action of its event.
C11_LastTestContextReachesNextFrame ==
    Selected =>
        /\ \A j \in 1..(idx - 1) :
               executionRun[j].action = "test" => FramesOf(j) = {}
        /\ \A k \in 1..Len(frames) :
               LET e == EventIndex(k)
                   tests == TestsBetween(IF k = 1 THEN 0 ELSE EventIndex(k - 1), e)
               IN  IF tests = {}
                   THEN /\ frames[k].context = NoContext
                        /\ frames[k].action = executionRun[e].action
                   ELSE /\ frames[k].context =
                               TestContext(executionRun[Max(tests)])
                        /\ frames[k].action =
                               executionRun[e].action \o " (after test)"

C11_Witness ==
    /\ pc = "done"
    /\ Len(frames) = 2
    /\ Len(executionRun) = 4
    /\ executionRun[1].action = "test" /\ executionRun[2].action = "test"
    /\ TestContext(executionRun[1]) # TestContext(executionRun[2])
    /\ frames[1].context = TestContext(executionRun[2])
    /\ frames[1].action = "declare (after test)"
    /\ frames[2].context = NoContext

\* The place in the raw list of the event filterLogs is about to process.
RawIndex == Len(rawLogs) - Len(executionRun) + idx

\* The event shows, for each variable it names, the value the variable had
\* in the scope of the program when the event was emitted.
EventIsFaithful(i) ==
    /\ \A p \in 1..Len(vm.logs[i].locals) :
           JSONValue(vm.logs[i].locals[p][2], vm.heap)
               = Get(vm.emitted[i].scope, vm.logs[i].locals[p][1])
    /\ \A p \in 1..Len(vm.logs[i].args) :
           JSONValue(vm.logs[i].args[p][2], vm.heap)
               = Get(vm.emitted[i].scope, vm.logs[i].args[p][1])

\* C12: a frame shows, for a variable that is in scope where its event was
\* emitted, the value of that variable in that scope (the innermost open
\* call): what a nested call wrote to a variable of its own with the same
\* name is not shown for the caller after the nested call has returned.
\* Stated for the runs whose events record the values truly.
C12_FrameShowsInnermostScope ==
    [][(/\ pc = "filter"
        /\ Len(frames') > Len(frames)
        /\ \A i \in 1..Len(vm.logs) : EventIsFaithful(i))
       => LET frame == frames'[Len(frames')]
              scope == vm.emitted[RawIndex].scope
          IN  \A p \in 1..Len(scope) :
                  HasKey(frame.locals, scope[p][1])
                      => Get(frame.locals, scope[p][1]) = scope[p][2]]_vars

IsWrite(event) == event.action \in {"declare", "assign"}

\* C13: a declare or assign event that leaves the accumulated locals, as
\* they are serialized, the same as the locals of the last emitted frame
\* yields no frame and leaves the last pushed state and the pending context
\* as they were; one that writes what the accumulated locals hold already
\* leaves them as they were too, so that the events after it are processed
\* as if it had not been there.
C13_RedundantWriteYieldsNoFrame ==
    [][(/\ pc = "filter"
        /\ idx <= Len(executionRun)
        /\ IsWrite(executionRun[idx])
        /\ Len(frames) > 0
        /\ JSONstringify(Accumulate(currentState, executionRun[idx]), vm.heap)
               = JSONstringify(frames[Len(frames)].locals, vm.heap))
       => /\ frames' = frames
          /\ lastPushedState' = lastPushedState
          /\ pendingContext' = pendingContext
          /\ (\A p \in 1..Len(executionRun[idx].locals) :
                  executionRun[idx].locals[p] \in
                      {currentState[q] : q \in 1..Len(currentState)})
                 => currentState' = currentState]_vars

C13_Witness ==
    /\ pc = "done"
    /\ \E j \in 2..(Len(executionRun) - 1) :
           /\ executionRun[j].action = "assign"
           /\ executionRun[j - 1].action = "assign"
           /\ FramesOf(j - 1) # {}
           /\ FramesOf(j) = {}
           /\ FramesOf(j + 1) # {}
           /\ frames[Max(FramesOf(j + 1))].locals = executionRun[j].locals

IsLoopOrClass(event) == event.action \in {"loop", "class"}

\* C14: a loop or class event yields no frame when it is the first event of
\* the run, or when the accumulated locals are as the last emitted frame
\* shows them; a run of loop and class events only yields no frame at all.
C14_LoopOrClassForcesNoFrame ==
    Selected =>
        /\ \A j \in 1..(idx - 1) :
               (/\ IsLoopOrClass(executionRun[j])
                /\ \/ j = 1
                   \/ /\ FramesBefore(j) # {}
                      /\ JSONstringify(AccumulatedLocals(executionRun, j), vm.heap)
                             = JSONstringify(
                                   frames[Max(FramesBefore(j))].locals, vm.heap))
                   => FramesOf(j) = {}
        /\ (pc = "done" /\ \A j \in 1..Len(executionRun) :
                               IsLoopOrClass(executionRun[j]))
               => frames = <<>>

\* The object holds an array of the sandbox itself, not a copy of it.
HoldsRef(obj) == \E p \in 1..Len(obj) : obj[p][2][1] = "ref"

\* C15: the locals of a frame are a copy of their own, with no array of
\* the program in it, and once a frame is emitted, processing a later
\* event of the run leaves it as it is.
C15_EmittedFramesStayAsTheyAre ==
    [][pc = "filter" =>
           /\ Len(frames') >= Len(frames)
           /\ \A k \in 1..Len(frames) : frames'[k] = frames[k]
           /\ \A k \in 1..Len(frames') : ~HoldsRef(frames'[k].locals)]_vars

C15_Witness ==
    /\ pc = "done"
    /\ Len(frames) >= 2
    /\ HoldsRef(executionRun[1].args)
    /\ \E p \in 1..Len(frames[1].locals) : frames[1].locals[p][2][1] = "arr"
    /\ frames[2].action = "return"

Texts(strings) == [i \in 1..Len(strings) |-> Str(strings[i])]

-----------------------------------------------------------------------------
(* Claims about the server over several requests *)

\* What the handler answers to a source submitted as the first request.
FirstAnswer(name) ==
    IF name = "malformed"
    THEN [ok |-> TRUE, logs |-> <<ErrorFrame(message(SyntaxError))>>]
    ELSE Then(Run(InitVm(tracerPlugin(Parsed(name))), MaxSteps), LAMBDA m :
             IF m.status = "thrown"
             THEN IF HasMessage(m.thrown)
                  THEN [ok |-> TRUE, logs |-> <<ErrorFrame(message(m.thrown))>>]
                  ELSE [ok |-> FALSE, logs |-> <<>>]
             ELSE [ok |-> TRUE,
                   logs |-> filterLogs(selectExecutionRun(m.logs), m.heap)])

Finishes(name) ==
    name = "malformed"
        \/ Run(InitVm(tracerPlugin(Parsed(name))), MaxSteps).status # "running"

\* C18: whatever requests the server has processed before, the answer to a
\* source is the answer the same source gets as the first request.
C18_AnswerDependsOnSourceOnly ==
    (pc \in {"done", "failed"} /\ Finishes(code))
        => response = FirstAnswer(code)

-----------------------------------------------------------------------------
(* Claims about the events of a counted for loop *)

\* The for statements of a program that declare a variable, test it and
\* update it.
CountedLoops(program) ==
    {i \in 1..Len(program) :
        /\ program[i].type = "ForStatement"
        /\ program[i].init.type = "VariableDeclaration"
        /\ program[i].test.type # "null"
        /\ program[i].update.type # "null"}

IsTestOf(node, event) ==
    /\ event.action = "test"
    /\ event.line = node.line
    /\ event.expression = generate(node.test)

IsDeclareOf(node, event) ==
    /\ event.action = "declare"
    /\ event.line = node.line
    /\ HasKey(event.locals, node.init.id.name)

\* The number of the first n events that satisfy Is.
Count(logs, n, Is(_)) == Cardinality({i \in 1..n : Is(logs[i])})

\* C19: the init of a counted for loop yields one declare event, emitted
\* before the first turn of the loop, and each turn the loop begins yields
\* one test event, emitted before any other event of that turn: with every
\* event emitted after the init, the test events so far are as many as the
\* turns begun so far, and when the run has ended there are as many test
\* events as turns.
C19_ForLoopDeclaresOnceAndTestsEachTurn ==
    pc # "transform" =>
        \A l \in CountedLoops(Parsed(code)) :
            LET node == Parsed(code)[l]
                IsTest(e) == IsTestOf(node, e)
                IsDeclare(e) == IsDeclareOf(node, e)
                turns == Len(SelectSeq(vm.effects, IsTurn))
            IN  /\ Count(vm.logs, Len(vm.logs), IsDeclare) <= 1
                /\ \A j \in 1..Len(vm.logs) :
                       /\ IsDeclare(vm.logs[j]) => vm.emitted[j].turns = 0
                       /\ Count(vm.logs, j, IsTest) = vm.emitted[j].turns
                       /\ vm.emitted[j].turns > 0
                              => Count(vm.logs, j, IsDeclare) = 1
                /\ vm.status = "done"
                       => /\ Count(vm.logs, Len(vm.logs), IsTest) = turns
                          /\ Count(vm.logs, Len(vm.logs), IsDeclare) = 1

C19_Witness ==
    /\ pc = "done"
    /\ code = "sum"
    /\ Len(SelectSeq(vm.effects, IsTurn)) = 3
    /\ Len(SelectSeq(rawLogs, LAMBDA e : e.action = "test")) = 3
    /\ rawLogs[2].action = "declare" /\ HasKey(rawLogs[2].locals, "i")
    /\ rawLogs[3].action = "test"

\* An event of the update clause of a counted loop: an assign event of the
\* line of the loop that shows the variable the clause updates.
IsUpdateOf(node, event) ==
    /\ node.update.type = "UpdateExpression"
    /\ event.action = "assign"
    /\ event.line = node.line
    /\ HasKey(event.locals, node.update.argument.name)

\* C20: the update clause of a counted for loop yields one assign event in
\* each turn, not two: with every event emitted, the events of the update
\* clause so far are no more than the turns begun so far, and when the run
\* has ended they are as many as the turns.
C20_UpdateYieldsOneAssignEachTurn ==
    pc # "transform" =>
        \A l \in CountedLoops(Parsed(code)) :
            LET node == Parsed(code)[l]
                IsUpdate(e) == IsUpdateOf(node, e)
                turns == Len(SelectSeq(vm.effects, IsTurn))
            IN  /\ \A j \in 1..Len(vm.logs) :
                       Count(vm.logs, j, IsUpdate) <= vm.emitted[j].turns
                /\ vm.status = "done"
                       => Count(vm.logs, Len(vm.logs), IsUpdate) = turns

-----------------------------------------------------------------------------
(* The first filterLogs of the server (server.js) on any raw log *)

\* Longest raw log the first filterLogs is given.
MaxLegacy == 4

\* prev && prev.line === entry.line &&
\*   JSON.stringify(prev.locals) === JSON.stringify(entry.locals)
IsDuplicateLine(prev, entry) ==
    /\ prev # NoEntry
    /\ prev.line = entry.line
    /\ JSONstringify(prev.locals, <<>>) = JSONstringify(entry.locals, <<>>)

\* The loop body that forgets the last line entry at a class entry too.
LegacyIterationResetByClass(st, entry) ==
    IF entry.action = "class"
    THEN [st EXCEPT !.entry = @ + 1, !.lastLineEntry = NoEntry]
    ELSE IF entry.action = "line" /\ IsDuplicateLine(st.lastLineEntry, entry)
    THEN [st EXCEPT !.entry = @ + 1]
    ELSE [entry |-> st.entry + 1,
          filtered |-> Append(st.filtered, entry),
          lastLineEntry |-> IF entry.action = "line" THEN entry ELSE NoEntry]

\* for (const entry of rawLogs) { ... }, one turn of it.
LegacyIteration(st, entry) ==
    IF entry.action = "class"
    THEN [st EXCEPT !.entry = @ + 1]
    ELSE IF entry.action = "line" /\ IsDuplicateLine(st.lastLineEntry, entry)
    THEN [st EXCEPT !.entry = @ + 1]
    ELSE [entry |-> st.entry + 1,
          filtered |-> Append(st.filtered, entry),
          lastLineEntry |-> IF entry.action = "line" THEN entry ELSE NoEntry]

LineEntry(line, locals) ==
    Event("line", line, EmptyObject, locals, Undefined, Undefined, "", Undefined, "")

LegacyShapes ==
    { LineEntry(1, X1), LineEntry(1, X2), LineEntry(2, X1),
      LineEntry(1, EmptyObject), LineEntry(1, XUndefined),
      Event("class", 1, EmptyObject, EmptyObject, Undefined, Undefined, "", Undefined, ""),
      Event("call", 1, EmptyObject, EmptyObject, Undefined, Undefined, "", Undefined, "f") }

LegacyLogLists == UNION { [1..n -> LegacyShapes] : n \in 0..MaxLegacy }

InitLegacy ==
    /\ pc = "legacy"
    /\ code = "(entries)"
    /\ vm = IdleVm
    /\ rawLogs \in LegacyLogLists
    /\ executionRun = <<>>
    /\ idx = 1
    /\ currentState = EmptyObject
    /\ lastPushedState = NullState
    /\ pendingContext = NoContext
    /\ frames = <<>>
    /\ response = [ok |-> TRUE, logs |-> <<>>]
    /\ legacy = LegacyStart
    /\ home = HomeStart
    /\ visualizer = VisualizerStart
    /\ fetches = <<>>

\* logs = filterLogs(logs): one turn of its loop.
LegacyFilterIter ==
    /\ pc = "legacy"
    /\ legacy.entry <= Len(rawLogs)
    /\ legacy' = LegacyIteration(legacy, rawLogs[legacy.entry])
    /\ UNCHANGED <<pc, code, vm, rawLogs, executionRun, idx, currentState,
                   lastPushedState, pendingContext, frames, response,
                   home, visualizer, fetches>>

\* return filtered;  res.json({ logs });
LegacyRespond ==
    /\ pc = "legacy"
    /\ legacy.entry > Len(rawLogs)
    /\ response' = [ok |-> TRUE, logs |-> legacy.filtered]
    /\ pc' = "done"
    /\ UNCHANGED <<code, vm, rawLogs, executionRun, idx, currentState,
                   lastPushedState, pendingContext, frames,
                   legacy, home, visualizer, fetches>>

NextLegacy ==
    \/ LegacyFilterIter
    \/ LegacyRespond

SpecLegacy == InitLegacy /\ [][NextLegacy]_vars

IsLine(entry) == entry.action = "line"
IsKeptAlways(entry) == entry.action \notin {"class", "line"}

\* Two line entries that show the same line and the same locals.
SameLine(a, b) ==
    /\ IsLine(a) /\ IsLine(b)
    /\ a.line = b.line
    /\ JSONstringify(a.locals, <<>>) = JSONstringify(b.locals, <<>>)

\* s can be had from t by leaving entries out.
RECURSIVE IsSubsequence(_, _)
IsSubsequence(s, t) ==
    IF Len(s) = 0 THEN TRUE
    ELSE IF Len(t) = 0 THEN FALSE
    ELSE IF Head(s) = Head(t) THEN IsSubsequence(Tail(s), Tail(t))
    ELSE IsSubsequence(s, Tail(t))

\* What the first filterLogs has kept of the entries it has gone through.
LegacyKeepsWell ==
    LET out == legacy.filtered
        seen == SubSeq(rawLogs, 1, legacy.entry - 1)
    IN  /\ IsSubsequence(out, seen)
        /\ \A i \in 1..Len(out) : out[i].action # "class"
        /\ SelectSeq(out, IsKeptAlways) = SelectSeq(seen, IsKeptAlways)
        /\ \A i \in 1..(Len(out) - 1) : ~SameLine(out[i], out[i + 1])

\* C21: the first filterLogs returns a subsequence of the raw log, in its
\* order, with no class entry and with every entry that is neither a class
\* nor a line entry; it drops a line entry exactly when the entry it kept
\* last is a line entry of the same line and the same serialized locals; so
\* no two adjacent entries of the output are such line entries.
C21_LegacyFilterDropsRepeatedLines ==
    [][LegacyFilterIter =>
          LET entry == rawLogs[legacy.entry]
              out == legacy.filtered
              dropped == legacy'.filtered = out
          IN  /\ LegacyKeepsWell'
              /\ ~dropped => legacy'.filtered = Append(out, entry)
              /\ IsLine(entry) =>
                     (dropped <=> /\ Len(out) > 0
                                  /\ SameLine(out[Len(out)], entry))]_vars

\* A line entry, a class entry and the same line entry again: one is kept.
C21_Witness ==
    /\ pc = "done"
    /\ Len(rawLogs) = 4
    /\ IsLine(rawLogs[1]) /\ rawLogs[2].action = "class"
    /\ SameLine(rawLogs[1], rawLogs[3]) /\ rawLogs[1].locals # rawLogs[3].locals
    /\ rawLogs[4].action = "call"
    /\ response.logs = << rawLogs[1], rawLogs[4] >>

-----------------------------------------------------------------------------
(* The page: Home, its Visualizer and the requests of runCode *)

\* Most requests awaiting their response at a time.
MaxFetches == 2

\* The sources typed into the editor: one answered with no frame, two
\* answered with frames, one the handler fails on.
Sources == {"define", "add", "nested", "throwNull"}

\* What the server answers to each source.
Answers == [c \in Sources |-> FirstAnswer(c)]

\* [{ error: err.message }]
FetchError == << ErrorFrame(Str("Failed to fetch")) >>

\* logs.length > 0 && <Visualizer ... />
Mounted(h) == Len(h.logs) > 0

\* The Visualizer after Home has gone from h to g: unmounted when there are
\* no frames, mounted anew after there were none, and else rendered again,
\* its playback effect to run when logs or step is another than before.
Rendered(h, g, v, changed) ==
    IF ~Mounted(g) THEN VisualizerStart
    ELSE IF ~Mounted(h) THEN [VisualizerStart EXCEPT !.effect = TRUE]
    ELSE IF changed THEN [v EXCEPT !.effect = TRUE]
    ELSE v

\* setStep, by a control or by a tick of the interval.
SetStep(to) ==
    /\ home' = [home EXCEPT !.currentStep = to]
    /\ visualizer' = Rendered(home, home', visualizer, to # home.currentStep)

InitPage ==
    /\ pc = "page"
    /\ code = "(page)"
    /\ vm = IdleVm
    /\ rawLogs = <<>>
    /\ executionRun = <<>>
    /\ idx = 1
    /\ currentState = EmptyObject
    /\ lastPushedState = NullState
    /\ pendingContext = NoContext
    /\ frames = <<>>
    /\ response = [ok |-> TRUE, logs |-> <<>>]
    /\ legacy = LegacyStart
    /\ home = HomeStart
    /\ visualizer = VisualizerStart
    /\ fetches = <<>>

server == <<pc, code, vm, rawLogs, executionRun, idx, currentState,
            lastPushedState, pendingContext, frames, response, legacy>>

\* runCode, to its await: setCode(codeInput) and the request sent.
RunCode ==
    /\ Len(fetches) < MaxFetches
    /\ \E codeInput \in Sources :
           /\ home' = [home EXCEPT !.code = codeInput]
           /\ fetches' = Append(fetches, codeInput)
    /\ UNCHANGED <<server, visualizer>>

Without(s, i) == SubSeq(s, 1, i - 1) \o SubSeq(s, i + 1, Len(s))

\* runCode after its await, the response there and read:
\* setLogs(data.logs); setCurrentStep(0);
FetchResolve ==
    \E i \in 1..Len(fetches) :
        /\ Answers[fetches[i]].ok
        /\ home' = [home EXCEPT !.logs = Answers[fetches[i]].logs,
                                !.currentStep = 0]
        /\ visualizer' = Rendered(home, home', visualizer, TRUE)
        /\ fetches' = Without(fetches, i)
        /\ UNCHANGED server

\* runCode after its await, the request failed or its answer is not JSON:
\* catch (err) { setLogs([{ error: err.message }]); }
FetchReject ==
    \E i \in 1..Len(fetches) :
        /\ home' = [home EXCEPT !.logs = FetchError]
        /\ visualizer' = Rendered(home, home', visualizer, TRUE)
        /\ fetches' = Without(fetches, i)
        /\ UNCHANGED server

\* <button onClick={() => setStep(0)}>Reset
PressReset ==
    /\ Mounted(home)
    /\ SetStep(0)
    /\ UNCHANGED <<server, fetches>>

\* <button onClick={() => setStep((s) => Math.max(s - 1, 0))}>Prev
PressPrev ==
    /\ Mounted(home)
    /\ SetStep(IF home.currentStep - 1 > 0 THEN home.currentStep - 1 ELSE 0)
    /\ UNCHANGED <<server, fetches>>

\* <button onClick={() => setStep((s) => Math.min(s + 1, logs.length - 1))}>Next
PressNext ==
    /\ Mounted(home)
    /\ SetStep(Min({home.currentStep + 1, Len(home.logs) - 1}))
    /\ UNCHANGED <<server, fetches>>

\* <button onClick={() => setIsPlaying((p) => !p)}>
PressPlay ==
    /\ Mounted(home)
    /\ visualizer' = [visualizer EXCEPT !.isPlaying = ~@, !.effect = TRUE]
    /\ UNCHANGED <<server, home, fetches>>

\* The playback effect that never stops the playback (the first Visualizer).
PlaybackNeverStopping(v, h) ==
    IF v.isPlaying
    THEN [v EXCEPT !.interval = Len(h.logs), !.effect = FALSE]
    ELSE [v EXCEPT !.interval = NoInterval, !.effect = FALSE]

\* useEffect(() => { ... }, [isPlaying, speed, logs, step, setStep]): the
\* cleanup of the effect before (clearInterval) and the effect; the
\* interval keeps the logs.length it was set with.
Playback(v, h) ==
    IF v.isPlaying
    THEN IF h.currentStep >= Len(h.logs) - 1
         THEN [v EXCEPT !.isPlaying = FALSE, !.interval = NoInterval,
                        !.effect = TRUE]
         ELSE [v EXCEPT !.interval = Len(h.logs), !.effect = FALSE]
    ELSE [v EXCEPT !.interval = NoInterval, !.effect = FALSE]

PlaybackEffect ==
    /\ visualizer.effect
    /\ visualizer' = Playback(visualizer, home)
    /\ UNCHANGED <<server, home, fetches>>

\* The interval fires: setStep((s) => Math.min(s + 1, logs.length - 1)),
\* with the logs of the render that set the interval.
Tick ==
    /\ visualizer.interval # NoInterval
    /\ SetStep(Min({home.currentStep + 1, visualizer.interval - 1}))
    /\ UNCHANGED <<server, fetches>>

\* What the user does.
UserActs ==
    \/ RunCode
    \/ PressReset
    \/ PressPrev
    \/ PressNext
    \/ PressPlay

NextPage ==
    \/ UserActs
    \/ FetchResolve
    \/ FetchReject
    \/ PlaybackEffect
    \/ Tick

SpecPage == InitPage /\ [][NextPage]_vars

\* The effect runs after each render, and the interval fires while it is set.
FairSpecPage ==
    SpecPage /\ WF_vars(PlaybackEffect) /\ WF_vars(Tick)

LastStep == Max({0, Len(home.logs) - 1})

\* C22: whatever was run, pressed or played, the current step is at least 0
\* and at most max(0, logs.length - 1).
C22_StepIndexesAFrame ==
    0 <= home.currentStep /\ home.currentStep <= LastStep

\* A tick of the interval set for the trace on display, while playing.
PlayingTick ==
    /\ Tick
    /\ visualizer.isPlaying
    /\ visualizer.interval = Len(home.logs)
    /\ home.currentStep <= LastStep

\* The playback effect runs while playing at the last frame or beyond it.
EffectAtTheEnd ==
    /\ PlaybackEffect
    /\ visualizer.isPlaying
    /\ home.currentStep >= LastStep

\* The user or a response of the server comes between.
Disturbed == UserActs \/ FetchResolve \/ FetchReject

-----------------------------------------------------------------------------
(* Claims about requests in flight *)

\* The page when every request reaches the server and its answer the page.
NextPageAnswered ==
    \/ UserActs
    \/ FetchResolve
    \/ PlaybackEffect
    \/ Tick

SpecPageAnswered == InitPage /\ [][NextPageAnswered]_vars

\* C24: when code was run several times before the responses came, then
\* once all responses have come, the trace on display is the answer to the
\* code submitted last (the code the editor shows), whatever the order the
\* responses came in.
C24_LastSubmittedCodeIsShown ==
    (fetches = <<>> /\ home.code \in Sources)
        => /\ home.logs = Answers[home.code].logs
           /\ home.currentStep <= LastStep

====
